---- MODULE Spec2Model ----
(***************************************************************************)
(* Model of audio_extractor.py: a Streamlit script that writes an uploaded *)
(* video to a temp file, probes its audio streams with ffprobe, lets the   *)
(* user pick a track, extracts it with ffmpeg, optionally enhances it,     *)
(* converts it to the chosen format, presents it and deletes temp files.   *)
(* One script run (Streamlit reruns the script top to bottom on every      *)
(* interaction) is a sequence of steps; pc is the script's position.       *)
(***************************************************************************)
EXTENDS Integers, Sequences, FiniteSets, TLC

\* ---------------------------------------------------------------- bounds
MaxRuns == 2        \* script runs (reruns) per session
MaxUnlinkFailures == 1   \* os.unlink calls that raise, per session
MaxStreams == 2     \* audio streams in one probe output

\* ------------------------------------------------------------ JSON / dict
\* Python None, as returned by dict.get(key) without a default.
None == "None"

\* An unbound name of the script's namespace ('name' in locals() is False).
Unbound == <<>>

\* dict.get(key, default)
Get(obj, key, default) == IF key \in DOMAIN obj THEN obj[key] ELSE default

\* The empty JSON object / empty dict.
EmptyObj == [k \in {} |-> ""]

\* ------------------------------------------------------ get_audio_streams
\* The dict built for one stream of the ffprobe output (lines 47-56):
\* 'index' is read without a default, every other field with 'unknown';
\* language and title come from the nested 'tags' map when it is present.
StreamInfo(stream) ==
    [index       |-> Get(stream, "index", None),
     codec       |-> Get(stream, "codec_name", "unknown"),
     sample_rate |-> Get(stream, "sample_rate", "unknown"),
     channels    |-> Get(stream, "channels", "unknown"),
     duration    |-> Get(stream, "duration", "unknown"),
     bit_rate    |-> Get(stream, "bit_rate", "unknown"),
     language    |-> IF "tags" \in DOMAIN stream
                     THEN Get(Get(stream, "tags", EmptyObj), "language", "unknown")
                     ELSE "unknown",
     title       |-> IF "tags" \in DOMAIN stream
                     THEN Get(Get(stream, "tags", EmptyObj), "title", "unknown")
                     ELSE "unknown"]

\* get_audio_streams(video_path): the probe tool's result for the file is
\* [returncode, parsable, data]; data is the parsed JSON document.  Returns
\* the descriptor list and the error banners raised on the way.
get_audio_streams(result) ==
    IF result.returncode # 0
    THEN [streams |-> <<>>, errors |-> {"Error analyzing video"}]
    ELSE IF ~result.parsable
    THEN [streams |-> <<>>, errors |-> {"Error getting audio streams"}]
    ELSE LET raw == Get(result.data, "streams", <<>>)
         IN  [streams |-> [i \in 1..Len(raw) |-> StreamInfo(raw[i])],
              errors  |-> {}]

\* --------------------------------------------------------------- line 112
\* Mutation: the test `audio_streams is None`, which a list never passes.
HasNoTracksIsNone(streams) == FALSE

\* `if not audio_streams:` -- the empty list is falsy.
HasNoTracks(streams) == streams = <<>>

\* ---------------------------------------------------------- lines 118-135
\* Mutation: the label without its "Track {i}" prefix.
TrackLabelWithoutPosition(i, stream) ==
    (IF stream.language # "unknown" THEN <<" - Language: ", stream.language>> ELSE <<>>)
    \o (IF stream.title # "unknown" THEN <<" - Title: ", stream.title>> ELSE <<>>)
    \o <<" - Channels: ", stream.channels, ", Codec: ", stream.codec>>

\* The selectbox label of the stream at zero-based position i, as the list
\* of the segments the f-strings concatenate (lines 125-130).
TrackLabel(i, stream) ==
    <<"Track ", ToString(i)>>
    \o (IF stream.language # "unknown" THEN <<" - Language: ", stream.language>> ELSE <<>>)
    \o (IF stream.title # "unknown" THEN <<" - Title: ", stream.title>> ELSE <<>>)
    \o <<" - Channels: ", stream.channels, ", Codec: ", stream.codec>>

\* track_options (lines 118-132): one label per descriptor, in list order.
TrackOptions(streams) == [k \in 1..Len(streams) |-> TrackLabel(k - 1, streams[k])]

\* list.index(x): the zero-based position of the first element equal to x.
ListIndex(list, x) ==
    (CHOOSE k \in 1..Len(list) :
        list[k] = x /\ \A j \in 1..(k - 1) : list[j] # x) - 1

\* ----------------------------------------------------- extract_audio_track
\* Mutation: the return code of ffmpeg is not looked at.
extract_audio_track_ignoring_returncode(outcome) ==
    IF outcome = "exception"
    THEN [ok |-> FALSE, errors |-> {"Error extracting audio track"}]
    ELSE [ok |-> TRUE, errors |-> {}]

\* extract_audio_track (lines 65-87), given what running ffmpeg did:
\* "ok" (exit 0), "nonzero" (exit code other than 0), "exception"
\* (subprocess.run raised).  Returns the boolean and the error banner.
extract_audio_track(outcome) ==
    IF outcome = "ok" THEN [ok |-> TRUE, errors |-> {}]
    ELSE IF outcome = "nonzero"
    THEN [ok |-> FALSE, errors |-> {"Error extracting audio: stderr"}]
    ELSE [ok |-> FALSE, errors |-> {"Error extracting audio track"}]

\* ---------------------------------------------------------- temp file names
\* tempfile.NamedTemporaryFile(delete=False, suffix=s).name: a name no other
\* temp file of the process has.  The random part of the name is stood for
\* by the script run n and the ordinal k of the call within the run (the
\* video is call 1, the extracted WAV call 2, the converted output call 3).
TempName(n, k, suffix) == <<n, k, suffix>>

\* f".{output_format}" (line 163)
Suffix(format) ==
    CASE format = "mp3" -> ".mp3"
      [] format = "wav" -> ".wav"
      [] format = "ogg" -> ".ogg"

\* audio_path.replace(".wav", "_enhanced.wav") (line 154)
EnhancedName(path) ==
    IF path[3] = ".wav" THEN <<path[1], path[2], "_enhanced.wav">> ELSE path

\* Mutation: the temp video is written once and its name kept for later runs.
CreateTempVideoOnce(files, n, prev) ==
    IF prev # Unbound THEN [path |-> prev, files |-> files]
    ELSE [path |-> TempName(n, 1, ".mp4"), files |-> files \cup {TempName(n, 1, ".mp4")}]

\* Lines 104-106: every script run writes the upload to a new temp file;
\* prev is the name video_path was bound to by the previous run.
CreateTempVideo(files, n, prev) ==
    [path |-> TempName(n, 1, ".mp4"), files |-> files \cup {TempName(n, 1, ".mp4")}]

\* Mutation: the enhancement runs whatever the checkbox says.
ShouldEnhanceAlways(enhance) == TRUE

\* `if enhance_audio:` (line 147)
ShouldEnhance(enhance) == enhance

\* Mutation: every format is exported, wav included.
NeedsConversionAlways(format) == TRUE

\* `if output_format != "wav":` (line 161)
NeedsConversion(format) == format # "wav"

\* The names the cleanup loop walks, in order (line 202).
PathVars == <<"video_path", "audio_path", "final_audio_path", "final_output_path">>

\* Mutation: one try/except around the whole loop, so that the first
\* os.unlink that raises ends it.
NextPathVarStoppingOnError(i, unlinked) ==
    IF unlinked THEN i + 1 ELSE Len(PathVars) + 1

\* The loop index after the body ran for entry i; unlinked is FALSE when
\* os.unlink raised, which the inner try/except turns into a warning
\* (lines 204-207), so the loop goes on either way.
NextPathVar(i, unlinked) == i + 1

\* The body of the loop of lines 202-207 for entry i.  paths[i] is what the
\* name PathVars[i] is bound to (Unbound when it is not in locals()), disk is
\* [files, attempted, warnings], raising is the set of names for which
\* os.unlink raises.  A name bound to a file that exists is unlinked; when
\* os.unlink raises the file stays and a warning is shown.
CleanupBody(i, paths, disk, raising) ==
    LET name == PathVars[i]
        path == paths[i]
        hit  == path # Unbound /\ path \in disk.files
        ok   == ~(hit /\ name \in raising)
    IN  [unlinked |-> ok,
         disk |-> IF ~hit THEN disk
                  ELSE [files     |-> IF ok THEN disk.files \ {path} ELSE disk.files,
                        attempted |-> disk.attempted \cup {path},
                        warnings  |-> IF ok THEN disk.warnings
                                      ELSE disk.warnings \cup {name}]]

\* The loop of lines 202-207 from entry i on.
RECURSIVE CleanupLoop(_, _, _, _)
CleanupLoop(i, paths, disk, raising) ==
    IF i > Len(PathVars) THEN disk
    ELSE CHOOSE result \in
             {CleanupLoop(NextPathVar(i, b.unlinked), paths, b.disk, raising) :
                 b \in {CleanupBody(i, paths, disk, raising)}} : TRUE

\* ------------------------------------------------------------------ inputs
\* Stream entries of the probe output used by the workflow runs: one with an
\* index and a language tag, one with neither index nor tags.
TaggedEntry ==
    ("index" :> "1") @@ ("codec_name" :> "aac") @@ ("channels" :> "2")
    @@ ("tags" :> ("language" :> "eng"))

BareEntry == ("codec_name" :> "aac") @@ ("channels" :> "2")

StreamLists == UNION {[1..k -> {TaggedEntry, BareEntry}] : k \in 0..MaxStreams}

\* What ffprobe does on an uploaded file: exit 0 with a streams list, exit 0
\* with a document without 'streams', exit 0 with unparsable output, exit 1.
Uploads ==
    {[returncode |-> 0, parsable |-> TRUE, data |-> ("streams" :> l)] : l \in StreamLists}
    \cup {[returncode |-> 0, parsable |-> TRUE, data |-> EmptyObj],
          [returncode |-> 0, parsable |-> FALSE, data |-> EmptyObj],
          [returncode |-> 1, parsable |-> TRUE, data |-> EmptyObj]}

\* st.file_uploader returned None.
NoFile == [name |-> "none"]

Formats == {"mp3", "wav", "ogg"}

\* ------------------------------------------------------------------- state
VARIABLES
    pc,                 \* position of the script: "idle" between runs
    runs,               \* script runs started so far
    unlink_failures,    \* os.unlink calls that raised so far
    uploaded_file,      \* line 90
    enhance_audio,      \* line 22
    output_format,      \* line 23
    fs,                 \* the temp files of the current run that exist on disk
    video_path,         \* line 106
    audio_streams,      \* line 110
    track_options,      \* line 118
    selected_track,     \* line 134: index of the entry the user picked
    selected_index,     \* line 135
    tmp_audio,          \* line 142
    audio_path,         \* line 144
    enhanced_path,      \* line 154
    final_audio_path,   \* lines 156, 158
    tmp_output,         \* line 163
    final_output_path,  \* lines 165, 167
    errors,             \* st.error banners of this run
    warnings,           \* st.warning banners of this run
    success,            \* st.success shown (line 169)
    audio_player,       \* file given to st.audio (line 176)
    download_button,    \* file given to st.download_button (line 180)
    stages,             \* stages entered in this run, in order
    failure,            \* the stage that failed in this run, or "none"
    created,            \* temp files created in this run
    unlink_attempted,   \* paths os.unlink was called on in this run
    extractor_calls,    \* arguments of the extract_audio_track calls of this run
    previous_attempt    \* how the run before this one ended

ns == <<video_path, audio_streams, track_options, selected_track, selected_index,
        tmp_audio, audio_path, enhanced_path, final_audio_path, tmp_output,
        final_output_path>>

ui == <<errors, warnings, success, audio_player, download_button>>

trace == <<stages, failure, created, unlink_attempted, extractor_calls, previous_attempt>>

config == <<uploaded_file, enhance_audio, output_format>>

vars == <<pc, runs, unlink_failures, config, fs, ns, ui, trace>>

\* How a run ended, in the words of the workflow's state machine: "Ready"
\* when the artifact was presented, "Failed" when a stage failed, "none" when
\* no extract attempt was made.
AttemptOutcome(log, failed) ==
    IF failed # "none" THEN "Failed"
    ELSE IF log # <<>> /\ log[Len(log)] = "Ready" THEN "Ready"
    ELSE "none"

Init ==
    /\ pc = "idle"
    /\ runs = 0
    /\ unlink_failures = 0
    /\ uploaded_file = NoFile
    /\ enhance_audio = TRUE
    /\ output_format = "mp3"
    /\ fs = {}
    /\ video_path = Unbound
    /\ audio_streams = <<>>
    /\ track_options = <<>>
    /\ selected_track = 0
    /\ selected_index = 0
    /\ tmp_audio = Unbound
    /\ audio_path = Unbound
    /\ enhanced_path = Unbound
    /\ final_audio_path = Unbound
    /\ tmp_output = Unbound
    /\ final_output_path = Unbound
    /\ errors = {}
    /\ warnings = {}
    /\ success = FALSE
    /\ audio_player = Unbound
    /\ download_button = Unbound
    /\ stages = <<>>
    /\ failure = "none"
    /\ created = {}
    /\ unlink_attempted = {}
    /\ extractor_calls = <<>>
    /\ previous_attempt = "none"

\* The user drops a file on the uploader (line 90).
UploadFile(f) ==
    /\ pc = "idle"
    /\ uploaded_file = NoFile
    /\ uploaded_file' = f
    /\ UNCHANGED <<pc, runs, unlink_failures, enhance_audio, output_format, fs, ns, ui, trace>>

\* A script run from the top to the branch of line 112: the sidebar widgets
\* give enhance_audio and output_format, the script's namespace and the page
\* start empty, the upload is written to a new temp file and probed.  No
\* later run names a file an earlier run left on disk, so fs starts over.
ScriptStart(enhance, format) ==
    /\ pc = "idle"
    /\ uploaded_file # NoFile
    /\ runs < MaxRuns
    /\ runs' = runs + 1
    /\ enhance_audio' = enhance
    /\ output_format' = format
    /\ LET tv    == CreateTempVideo({}, runs + 1, video_path)
           probe == get_audio_streams(uploaded_file)
       IN  /\ video_path' = tv.path
           /\ fs' = tv.files
           /\ created' = tv.files
           /\ audio_streams' = probe.streams
           /\ IF HasNoTracks(probe.streams)
              THEN /\ errors' = probe.errors \cup {"No audio tracks found"}
                   /\ pc' = "idle"
              ELSE /\ errors' = probe.errors
                   /\ pc' = "select"
    /\ track_options' = <<>>
    /\ selected_track' = 0
    /\ selected_index' = 0
    /\ tmp_audio' = Unbound
    /\ audio_path' = Unbound
    /\ enhanced_path' = Unbound
    /\ final_audio_path' = Unbound
    /\ tmp_output' = Unbound
    /\ final_output_path' = Unbound
    /\ warnings' = {}
    /\ success' = FALSE
    /\ audio_player' = Unbound
    /\ download_button' = Unbound
    /\ stages' = <<>>
    /\ failure' = "none"
    /\ unlink_attempted' = {}
    /\ extractor_calls' = <<>>
    /\ previous_attempt' = AttemptOutcome(stages, failure)
    /\ UNCHANGED <<uploaded_file, unlink_failures>>

\* Lines 118-138: the labels are built, the selectbox returns the label of
\* the entry the user picked (entry k of the list, zero-based), the script
\* looks its position up, and the button was pressed or not.
SelectTrack(k, pressed) ==
    /\ pc = "select"
    /\ LET options == TrackOptions(audio_streams)
       IN  /\ k \in 0..(Len(options) - 1)
           /\ track_options' = options
           /\ selected_track' = k
           /\ selected_index' = ListIndex(options, options[k + 1])
    /\ pc' = IF pressed THEN "extract" ELSE "idle"
    /\ UNCHANGED <<runs, unlink_failures, config, fs, video_path, audio_streams, tmp_audio,
                   audio_path, enhanced_path, final_audio_path, tmp_output,
                   final_output_path, ui, trace>>

\* Lines 142-144: a temp WAV is created and extract_audio_track is called on
\* it; audio_path is bound only when it returned True, otherwise the script
\* falls through to the finally block.
Extract(outcome) ==
    /\ pc = "extract"
    /\ LET wav == TempName(runs, 2, ".wav")
           r   == extract_audio_track(outcome)
       IN  /\ tmp_audio' = wav
           /\ fs' = fs \cup {wav}
           /\ created' = created \cup {wav}
           /\ extractor_calls' = Append(extractor_calls, <<video_path, selected_index>>)
           /\ stages' = Append(stages, "Extracting")
           /\ failure' = IF outcome = "ok" THEN "none" ELSE "Extracting"
           /\ errors' = errors \cup r.errors
           /\ IF r.ok
              THEN /\ audio_path' = wav
                   /\ pc' = "enhance"
              ELSE /\ audio_path' = audio_path
                   /\ pc' = "cleanup"
    /\ UNCHANGED <<runs, unlink_failures, config, video_path, audio_streams, track_options, selected_track,
                   selected_index, enhanced_path, final_audio_path, tmp_output,
                   final_output_path, warnings, success, audio_player,
                   download_button, unlink_attempted, previous_attempt>>

\* Lines 147-156, enhance_audio on.  "ok": the enhanced WAV is written and
\* becomes final_audio_path.  "load_raises": librosa raised before line 154.
\* "write_raises": sf.write raised after it had created the file.  An
\* exception goes to the handler of line 188 and then to the finally block.
Enhance(outcome) ==
    /\ pc = "enhance"
    /\ ShouldEnhance(enhance_audio)
    /\ stages' = Append(stages, "Enhancing")
    /\ LET out == EnhancedName(audio_path)
       IN  CASE outcome = "ok" ->
                  /\ enhanced_path' = out
                  /\ fs' = fs \cup {out}
                  /\ created' = created \cup {out}
                  /\ final_audio_path' = out
                  /\ UNCHANGED <<errors, failure>>
                  /\ pc' = "convert"
             [] outcome = "load_raises" ->
                  /\ errors' = errors \cup {"Error extracting audio: exception"}
                  /\ failure' = "Enhancing"
                  /\ UNCHANGED <<enhanced_path, fs, created, final_audio_path>>
                  /\ pc' = "cleanup"
             [] outcome = "write_raises" ->
                  /\ enhanced_path' = out
                  /\ fs' = fs \cup {out}
                  /\ created' = created \cup {out}
                  /\ errors' = errors \cup {"Error extracting audio: exception"}
                  /\ failure' = "Enhancing"
                  /\ UNCHANGED final_audio_path
                  /\ pc' = "cleanup"
    /\ UNCHANGED <<runs, unlink_failures, config, video_path, audio_streams, track_options,
                   selected_track, selected_index, tmp_audio, audio_path, tmp_output,
                   final_output_path, warnings, success, audio_player,
                   download_button, unlink_attempted, extractor_calls, previous_attempt>>

\* Lines 157-158, enhance_audio off.
SkipEnhance ==
    /\ pc = "enhance"
    /\ ~ShouldEnhance(enhance_audio)
    /\ final_audio_path' = audio_path
    /\ pc' = "convert"
    /\ UNCHANGED <<runs, unlink_failures, config, fs, video_path, audio_streams, track_options,
                   selected_track, selected_index, tmp_audio, audio_path, enhanced_path,
                   tmp_output, final_output_path, ui, trace>>

\* Lines 161-165, a format other than wav.  "ok": the export is written to a
\* new temp file, which becomes final_output_path.  "from_file_raises":
\* AudioSegment.from_file raised, no file was created.  "export_raises": the
\* temp file was created and export raised.
Convert(outcome) ==
    /\ pc = "convert"
    /\ NeedsConversion(output_format)
    /\ stages' = Append(stages, "Converting")
    /\ LET out == TempName(runs, 3, Suffix(output_format))
       IN  CASE outcome = "ok" ->
                  /\ tmp_output' = out
                         /\ fs' = fs \cup {out}
                  /\ created' = created \cup {out}
                  /\ final_output_path' = out
                  /\ UNCHANGED <<errors, failure>>
                  /\ pc' = "present"
             [] outcome = "from_file_raises" ->
                  /\ errors' = errors \cup {"Error extracting audio: exception"}
                  /\ failure' = "Converting"
                  /\ UNCHANGED <<tmp_output, fs, created, final_output_path>>
                  /\ pc' = "cleanup"
             [] outcome = "export_raises" ->
                  /\ tmp_output' = out
                         /\ fs' = fs \cup {out}
                  /\ created' = created \cup {out}
                  /\ errors' = errors \cup {"Error extracting audio: exception"}
                  /\ failure' = "Converting"
                  /\ UNCHANGED final_output_path
                  /\ pc' = "cleanup"
    /\ UNCHANGED <<runs, unlink_failures, config, video_path, audio_streams, track_options, selected_track,
                   selected_index, tmp_audio, audio_path, enhanced_path, final_audio_path,
                   warnings, success, audio_player, download_button,
                   unlink_attempted, extractor_calls, previous_attempt>>

\* Lines 166-167, format wav: the path is reused.
ReusePath ==
    /\ pc = "convert"
    /\ ~NeedsConversion(output_format)
    /\ stages' = Append(stages, "Converting")
    /\ final_output_path' = final_audio_path
    /\ pc' = "present"
    /\ UNCHANGED <<runs, unlink_failures, config, fs, video_path, audio_streams, track_options,
                   selected_track, selected_index, tmp_audio, audio_path, enhanced_path,
                   final_audio_path, tmp_output, ui, failure, created,
                   unlink_attempted, extractor_calls, previous_attempt>>

\* Lines 169-186: success banner, player and download button.
Present ==
    /\ pc = "present"
    /\ success' = TRUE
    /\ audio_player' = final_output_path
    /\ download_button' = final_output_path
    /\ stages' = Append(stages, "Ready")
    /\ pc' = "cleanup"
    /\ UNCHANGED <<runs, unlink_failures, config, fs, ns, errors, warnings, failure, created,
                   unlink_attempted, extractor_calls, previous_attempt>>

\* The finally block (lines 191-207), which ends the run.  The block of
\* lines 193-199 does nothing: the script binds no name 'video'.  raising is
\* the set of names for which os.unlink raises.
Cleanup(raising) ==
    /\ pc = "cleanup"
    /\ unlink_failures + Cardinality(raising) <= MaxUnlinkFailures
    /\ LET disk == CleanupLoop(1,
                       <<video_path, audio_path, final_audio_path, final_output_path>>,
                       [files |-> fs, attempted |-> unlink_attempted, warnings |-> warnings],
                       raising)
       IN  /\ fs' = disk.files
           /\ unlink_attempted' = disk.attempted
           /\ warnings' = disk.warnings
           /\ raising = disk.warnings
           /\ unlink_failures' = unlink_failures + Cardinality(raising)
    /\ pc' = "idle"
    /\ UNCHANGED <<runs, config, ns, errors, success, audio_player,
                   download_button, stages, failure, created, extractor_calls,
                   previous_attempt>>

Next ==
    \/ \E f \in Uploads : UploadFile(f)
    \/ \E enhance \in BOOLEAN, format \in Formats : ScriptStart(enhance, format)
    \/ \E k \in 0..(MaxStreams - 1), pressed \in BOOLEAN : SelectTrack(k, pressed)
    \/ \E outcome \in {"ok", "nonzero", "exception"} : Extract(outcome)
    \/ \E outcome \in {"ok", "load_raises", "write_raises"} : Enhance(outcome)
    \/ SkipEnhance
    \/ \E outcome \in {"ok", "from_file_raises", "export_raises"} : Convert(outcome)
    \/ ReusePath
    \/ Present
    \/ \E raising \in SUBSET {PathVars[i] : i \in 1..Len(PathVars)} : Cleanup(raising)

Spec == Init /\ [][Next]_vars

\* ------------------------------------------------- the prober on its own
\* Every shape of one stream entry: any subset of the six top-level keys,
\* and 'tags' absent, empty, or holding any subset of language and title.
TopKeys == {"index", "codec_name", "sample_rate", "channels", "duration", "bit_rate"}

SampleValue(key) ==
    CASE key = "index" -> "0"
      [] key = "codec_name" -> "aac"
      [] key = "sample_rate" -> "44100"
      [] key = "channels" -> "2"
      [] key = "duration" -> "10.0"
      [] key = "bit_rate" -> "128000"
      [] key = "language" -> "eng"
      [] key = "title" -> "Main"

TagMaps == {[k \in keys |-> SampleValue(k)] : keys \in SUBSET {"language", "title"}}

StreamEntries ==
    LET tops == {[k \in keys |-> SampleValue(k)] : keys \in SUBSET TopKeys}
    IN  tops \cup {top @@ ("tags" :> tags) : top \in tops, tags \in TagMaps}

ProbeInputs ==
    {[returncode |-> 0, parsable |-> TRUE, data |-> ("streams" :> <<e>>)] : e \in StreamEntries}
    \cup {[returncode |-> 0, parsable |-> FALSE, data |-> EmptyObj],
          [returncode |-> 1, parsable |-> TRUE, data |-> EmptyObj]}

\* The state with get_audio_streams about to be called on a probe result.
InitProbe ==
    /\ pc = "probe"
    /\ runs = 0
    /\ unlink_failures = 0
    /\ uploaded_file \in ProbeInputs
    /\ enhance_audio = TRUE
    /\ output_format = "mp3"
    /\ fs = {}
    /\ video_path = Unbound
    /\ audio_streams = <<>>
    /\ track_options = <<>>
    /\ selected_track = 0
    /\ selected_index = 0
    /\ tmp_audio = Unbound
    /\ audio_path = Unbound
    /\ enhanced_path = Unbound
    /\ final_audio_path = Unbound
    /\ tmp_output = Unbound
    /\ final_output_path = Unbound
    /\ errors = {}
    /\ warnings = {}
    /\ success = FALSE
    /\ audio_player = Unbound
    /\ download_button = Unbound
    /\ stages = <<>>
    /\ failure = "none"
    /\ created = {}
    /\ unlink_attempted = {}
    /\ extractor_calls = <<>>
    /\ previous_attempt = "none"

\* The call of line 110.
Probe ==
    /\ pc = "probe"
    /\ LET probe == get_audio_streams(uploaded_file)
       IN  /\ audio_streams' = probe.streams
           /\ errors' = probe.errors
    /\ pc' = "probed"
    /\ UNCHANGED <<runs, unlink_failures, config, fs, video_path, track_options,
                   selected_track, selected_index, tmp_audio, audio_path, enhanced_path,
                   final_audio_path, tmp_output, final_output_path, warnings, success,
                   audio_player, download_button, trace>>

NextProbe == Probe

SpecProbe == InitProbe /\ [][NextProbe]_vars

\* ==================================================================== claims

\* True once a script run has gone through its finally block.
RunCleanedUp == pc = "idle" /\ stages # <<>>

\* True once a script run with an uploaded file has ended.
RunEnded == pc = "idle" /\ runs > 0

\* C1: at the end of every run that created a temp file, on every exit path,
\* a deletion has been attempted for every temp file the run created.
C1_EveryTempFileDeletionAttempted ==
    RunEnded => created \subseteq unlink_attempted

\* C2: when the extraction tool exits non-zero and no unlink fails, at the
\* end of the attempt neither the temp source video nor the temp WAV made
\* for the extraction still exists.
C2_ExtractionFailureRemovesTempFiles ==
    (RunCleanedUp /\ "Error extracting audio: stderr" \in errors /\ warnings = {})
        => (video_path \notin fs /\ tmp_audio \notin fs)

\* C3: once the extraction tool has failed, or enhancement or conversion has
\* raised, the failed stage is the last stage of the attempt, an error is
\* shown, and neither the success message, the player nor the download
\* button is presented.
C3_FailureEndsAttempt ==
    failure # "none" =>
        /\ stages # <<>> /\ stages[Len(stages)] = failure
        /\ pc \in {"cleanup", "idle"}
        /\ errors # {}
        /\ ~success
        /\ audio_player = Unbound
        /\ download_button = Unbound

C3_Witness ==
    /\ RunCleanedUp
    /\ failure = "Extracting"
    /\ errors = {"Error extracting audio: stderr"}

\* C4: whenever the prober returned an empty list, the run reports that no
\* audio tracks were found and never calls the extractor.
C4_EmptyProbeNeverExtracts ==
    (runs > 0 /\ audio_streams = <<>>) =>
        /\ "No audio tracks found" \in errors
        /\ extractor_calls = <<>>
        /\ stages = <<>>
        /\ pc = "idle"

C4_Witness ==
    /\ runs > 0
    /\ audio_streams = <<>>
    /\ errors = {"Error analyzing video", "No audio tracks found"}

\* The descriptor fields, and whether the probe output lacks the field.
Fields ==
    {"index", "codec", "sample_rate", "channels", "duration", "bit_rate", "language", "title"}

FieldAbsent(stream, field) ==
    CASE field \in {"language", "title"} ->
             "tags" \notin DOMAIN stream \/ field \notin DOMAIN stream["tags"]
      [] field = "codec" -> "codec_name" \notin DOMAIN stream
      [] OTHER -> field \notin DOMAIN stream

\* C5: every descriptor field that is absent from the stream entry (for
\* language and title also when 'tags' is absent) is the string "unknown"
\* in the descriptor the prober returns.
C5_AbsentFieldIsUnknown ==
    pc = "probed" =>
        \A i \in 1..Len(audio_streams) : \A field \in Fields :
            FieldAbsent(uploaded_file.data["streams"][i], field)
                => audio_streams[i][field] = "unknown"

\* C6: the selectbox offers one entry per descriptor, in the descriptors'
\* order, and the index handed to the extractor is the zero-based position
\* of the entry the user picked, also among identical descriptors.
C6_SelectedPositionIsExtracted ==
    (runs > 0 /\ audio_streams # <<>> /\ pc # "select") =>
        /\ Len(track_options) = Len(audio_streams)
        /\ \A k \in 1..Len(track_options) :
              /\ track_options[k][2] = ToString(k - 1)
              /\ track_options[k][Len(track_options[k])] = audio_streams[k].codec
        /\ selected_index = selected_track
        /\ selected_index \in 0..(Len(audio_streams) - 1)
        /\ \A c \in 1..Len(extractor_calls) :
              extractor_calls[c] = <<video_path, selected_track>>

C6_Witness ==
    /\ Len(audio_streams) = 2
    /\ audio_streams[1] = audio_streams[2]
    /\ selected_track = 1
    /\ extractor_calls = <<<<video_path, 1>>>>

\* The stages of a whole attempt under the current settings.
StageOrder ==
    <<"Extracting">> \o (IF enhance_audio THEN <<"Enhancing">> ELSE <<>>)
    \o <<"Converting", "Ready">>

InStages(stage) == \E i \in 1..Len(stages) : stages[i] = stage

\* C7: the stages of an attempt run in the order Extracting, Enhancing,
\* Converting, Ready; Enhancing runs exactly when the toggle is on and
\* extraction succeeded; Converting starts only after extraction (and
\* enhancement, when on) succeeded; Ready only after every stage succeeded.
C7_StagesInOrder ==
    /\ Len(stages) <= Len(StageOrder)
    /\ \A i \in 1..Len(stages) : stages[i] = StageOrder[i]
    /\ InStages("Enhancing") => (enhance_audio /\ failure # "Extracting")
    /\ (enhance_audio /\ InStages("Extracting") /\ failure # "Extracting" /\ pc # "enhance")
          => InStages("Enhancing")
    /\ InStages("Converting") => failure \notin {"Extracting", "Enhancing"}
    /\ InStages("Ready") => (failure = "none" /\ stages = StageOrder)
    /\ pc = "enhance" => stages = <<"Extracting">>
    /\ pc = "convert" => (Len(stages) = Len(StageOrder) - 2 /\ failure = "none")
    /\ pc = "present" => (Len(stages) = Len(StageOrder) - 1 /\ failure = "none")

C7_Witness ==
    /\ stages = <<"Extracting", "Enhancing", "Converting", "Ready">>
    /\ enhance_audio
    /\ success

\* C8: with format wav the presented artifact is the converter's input path
\* itself (the enhanced WAV when enhancement ran, else the extracted WAV)
\* and the converter created no file; with mp3 or ogg it is a temp file the
\* converter created, distinct from its input.
C8_WavReusesPath ==
    audio_player # Unbound =>
        /\ final_audio_path = (IF enhance_audio THEN enhanced_path ELSE tmp_audio)
        /\ output_format = "wav" =>
              /\ audio_player = final_audio_path
              /\ download_button = final_audio_path
              /\ tmp_output = Unbound
              /\ created = {video_path, tmp_audio, final_audio_path}
        /\ output_format # "wav" =>
              /\ audio_player = tmp_output
              /\ download_button = tmp_output
              /\ tmp_output # final_audio_path
              /\ tmp_output \notin {video_path, tmp_audio, enhanced_path}
              /\ created = {video_path, tmp_audio, final_audio_path, tmp_output}

C8_Witness ==
    /\ audio_player # Unbound
    /\ output_format = "wav"
    /\ enhance_audio
    /\ audio_player = enhanced_path

\* C9: an unlink that fails only adds a warning: every path the script has
\* bound still gets its deletion attempt, a path stays on disk only with a
\* warning shown, and the attempt's outcome stands (a successful attempt
\* still shows its artifact and no error, a failed one its error alone).
C9_UnlinkFailureIsNonFatal ==
    RunCleanedUp =>
        /\ \A p \in {video_path, audio_path, final_audio_path, final_output_path} \ {Unbound} :
              /\ p \in unlink_attempted
              /\ p \in fs => warnings # {}
        /\ success = (failure = "none")
        /\ success => (errors = {} /\ audio_player = final_output_path
                       /\ download_button = final_output_path)
        /\ ~success => (Cardinality(errors) = 1 /\ audio_player = Unbound)

C9_Witness ==
    /\ RunCleanedUp
    /\ "video_path" \in warnings
    /\ video_path \in fs
    /\ audio_path \in unlink_attempted
    /\ audio_path \notin fs
    /\ success

\* The paths the script has bound in the current run.
BoundPaths ==
    {video_path, tmp_audio, audio_path, enhanced_path, final_audio_path, tmp_output,
     final_output_path} \ {Unbound}

\* C10: when extract is pressed again after an attempt that ended Failed or
\* Ready, the attempt starts with a source video temp file that exists and
\* was made by this run, with no path, stage or result of the earlier attempt
\* left, and no path bound later in the run is one of an earlier run.
C10_RetryStartsFresh ==
    runs > 1 =>
        /\ \A p \in BoundPaths : p[1] = runs
        /\ pc = "extract" =>
              /\ video_path \in fs
              /\ created = {video_path}
              /\ BoundPaths = {video_path}
              /\ stages = <<>> /\ failure = "none"
              /\ errors = {} /\ warnings = {} /\ ~success
              /\ audio_player = Unbound /\ download_button = Unbound
              /\ unlink_attempted = {}

C10_Witness ==
    /\ runs > 1
    /\ pc = "extract"
    /\ previous_attempt = "Failed"
    /\ video_path \in fs

====
